---------------------------- MODULE Spec2Model ----------------------------
(***************************************************************************)
(* Model of bloom_filter::BitArray and bloom_filter::BloomFilter           *)
(* (bloomFilter/cpp/include/bloom_filter/bloom_filter.hpp).                *)
(*                                                                         *)
(* Representation choices:                                                 *)
(*  - std::size_t / uint64_t values are unsigned integers of SizeBits bits *)
(*    (the program has 64; arithmetic wraps modulo 2^SizeBits exactly as   *)
(*    the program's wraps modulo 2^64).                                    *)
(*  - a 64-bit word of the bit array is the set of its bit offsets that    *)
(*    are 1: (1ULL << b) is {b}, |= is \cup, & ~ is \, a non-zero & is \in *)
(*  - a double is either NaN or a number held in thousandths; std::log of  *)
(*    the rates drawn here is held in units of 1/Scale.                    *)
(*  - XXH64 and MurmurHash3_x64_128 are external deterministic functions:  *)
(*    hashOf is some function from elements to hash pairs, fixed for the   *)
(*    whole behaviour.                                                     *)
(***************************************************************************)
EXTENDS Integers, Sequences, FiniteSets, TLC

\* ------------------------------------------------------------- bounds
\* width of std::size_t in the model
SizeBits == 16
\* words the allocator can supply; a larger std::vector throws std::bad_alloc
MaxWords == 160

\* ---------------------------------------------------------- constants
BIT_ALIGNMENT == 64
BIT_ALIGNMENT_SHIFT == 6
BIT_ALIGNMENT_MASK == BIT_ALIGNMENT - 1

\* fixed-point unit of the logarithms below
Scale == 100000
\* std::log(2.0), in units of 1/Scale
Ln2 == 69315
\* std::pow(std::log(2.0), 2.0), in units of 1/Scale
Ln2Squared == 48045

RECURSIVE Pow2(_)
Pow2(n) == IF n = 0 THEN 1 ELSE 2 * Pow2(n - 1)

\* std::size_t arithmetic is modulo SizeMod
SizeMod == Pow2(SizeBits)

\* ------------------------------------------------------------ doubles
NaN == [nan |-> TRUE, milli |-> 0]
Milli(m) == [nan |-> FALSE, milli |-> m]

\* a <= b and a >= b on doubles: every comparison with NaN is false
DoubleLe(a, b) == ~a.nan /\ ~b.nan /\ a.milli <= b.milli
DoubleGe(a, b) == ~a.nan /\ ~b.nan /\ a.milli >= b.milli

\* -std::log(p) for the rates 0 < p < 1 drawn below, in units of 1/Scale
NegLog(p) ==
    CASE p.milli = 10  -> 460517
      [] p.milli = 500 -> 69315
      [] p.milli = 990 -> 1005

\* std::ceil(a / b) for a >= 0, b > 0
Ceil(a, b) == (a + b - 1) \div b

\* ------------------------------------------------------------- inputs
\* byte sequences handed to add / contains: "", "a", "ab"
Elements == {<< >>, <<97>>, <<97, 98>>}

\* a capacity whose optimal bit count does not fit std::size_t
HugeCapacity == Pow2(SizeBits - 1)
Capacities == {0, 7, 100, 1000, HugeCapacity}

Rates == {NaN, Milli(-10), Milli(0), Milli(10), Milli(500), Milli(990),
          Milli(1000), Milli(1500)}

\* the (hash1, hash2) pairs the two hash functions may return
HashPairs == {<<6, 0>>, <<5, 1>>, <<5, 2>>,
              <<SizeMod - 3, Pow2(SizeBits - 1) + 1>>}

\* ------------------------------------------------------------ BitArray
\* words((bits + BIT_ALIGNMENT_MASK) / BIT_ALIGNMENT, 0): the word count
WordCount(bits) == ((bits + BIT_ALIGNMENT_MASK) % SizeMod) \div BIT_ALIGNMENT

BitArrayNew(bits) == [w \in 0 .. WordCount(bits) - 1 |-> {}]

\* i >> BIT_ALIGNMENT_SHIFT and i & BIT_ALIGNMENT_MASK
WordIndex(i) == i \div Pow2(BIT_ALIGNMENT_SHIFT)
BitOffset(i) == i % (BIT_ALIGNMENT_MASK + 1)

\* a word assigned the mask alone (= for |=)
OrIntoAssigns(word, i) == {BitOffset(i)}

\* word | (1ULL << (i & BIT_ALIGNMENT_MASK))
OrInto(word, i) == word \cup {BitOffset(i)}

\* a set that assigns the mask to the word (= for |=)
BitArraySetAssigns(ws, i) == [ws EXCEPT ![WordIndex(i)] = {BitOffset(i)}]

\* a set that flips the bit (^= for |=)
BitArraySetToggles(ws, i) ==
    [ws EXCEPT ![WordIndex(i)] =
        IF BitOffset(i) \in @ THEN @ \ {BitOffset(i)} ELSE @ \cup {BitOffset(i)}]

BitArraySet(ws, i) == [ws EXCEPT ![WordIndex(i)] = OrInto(@, i)]

BitArrayClear(ws, i) == [ws EXCEPT ![WordIndex(i)] = @ \ {BitOffset(i)}]

BitArrayTest(ws, i) == BitOffset(i) \in ws[WordIndex(i)]

BitArraySize(ws) == (Cardinality(DOMAIN ws) * BIT_ALIGNMENT) % SizeMod

\* ---------------------------------------------------------- variables
VARIABLES
    status,             \* "unconstructed", "constructed", or the exception thrown
    ctorArgs,           \* the arguments the constructor was called with
    falsePositiveRate,  \* BloomFilter::falsePositiveRate
    maxElements,        \* BloomFilter::maxElements
    words,              \* BloomFilter::bitArray.words
    hashCount,          \* BloomFilter::hashCount
    hashOf,             \* the hash functions: element -> <<hash1, hash2>>
    added,              \* history: the elements add was called with
    lastOp,             \* the last call made on the filter and what it returned
    atConstruction,     \* history: getBitArraySize and getHashCount as constructed
    threads,            \* per calling thread: where it is in its add or contains
    lock,               \* the callers' exclusive lock: its holder, or 0
    sync                \* whether the callers take the lock around every call

vars == <<status, ctorArgs, falsePositiveRate, maxElements, words, hashCount,
          hashOf, added, lastOp, atConstruction, threads, lock, sync>>

\* the threads that call the filter
Threads == {1, 2}

Idle == [pc |-> "idle", op |-> "none", element |-> << >>, i |-> 0, tmp |-> {},
         ret |-> TRUE, alone |-> TRUE, expect |-> TRUE]

\* --------------------------------------------------------- BloomFilter
\* the outcomes of static_cast<std::size_t>(d) when d is NaN or does not fit
\* std::size_t (undefined behaviour): 0, the top bit alone, or the largest value
UndefinedCast == {0, Pow2(SizeBits - 1), SizeMod - 1}

\* std::ceil(m) for m = -((n * log(p)) / pow(log(2), 2)); the product is split
\* at Ln2Squared so that no intermediate value leaves TLC's integers
CeilOfM(n, p) ==
    n * (NegLog(p) \div Ln2Squared) + Ceil(n * (NegLog(p) % Ln2Squared), Ln2Squared)

Returns(v) == [throws |-> "none", ret |-> v]
Throws(e) == [throws |-> e, ret |-> 0]

\* the set of outcomes of calculateBitSize(maxElements, falsePositiveRate)
calculateBitSize(n, p) ==
    IF n = 0
    THEN {Throws("invalid_argument")}
    ELSE IF DoubleLe(p, Milli(0)) \/ DoubleGe(p, Milli(1000))
    THEN {Throws("invalid_argument")}
    ELSE IF p.nan
    THEN {Returns(v) : v \in UndefinedCast}
    ELSE IF CeilOfM(n, p) < SizeMod
    THEN {Returns(CeilOfM(n, p))}
    ELSE {Returns(v) : v \in UndefinedCast}

\* std::ceil((bitArraySize / maxElements) * log(2))
calculateHashCount(n, bitArraySize) == Ceil(Ceil(bitArraySize * Ln2, Scale), n)

calculateHashes(element) == hashOf[element]

\* a position derived with i where the code has i + 1 (rounds from 0)
PositionFromZero(hashes, i, size) == ((hashes[1] + i * hashes[2]) % SizeMod) % size

\* a position that is not reduced modulo the size
PositionUnreduced(hashes, i, size) == (hashes[1] + (i + 1) * hashes[2]) % SizeMod

\* (hashes.hash1 + (i + 1) * hashes.hash2) % bitArray.size()
Position(hashes, i, size) == ((hashes[1] + (i + 1) * hashes[2]) % SizeMod) % size

\* a contains lambda that calls set where it should call test
CallbackTestSets(fn, ws, position) ==
    [ret |-> fn = "add" \/ BitArrayTest(ws, position),
     words |-> BitArraySet(ws, position)]

\* an add lambda that returns false, so that the loop stops after one set
CallbackAddStops(fn, ws, position) ==
    IF fn = "add"
    THEN [ret |-> FALSE, words |-> BitArraySet(ws, position)]
    ELSE [ret |-> BitArrayTest(ws, position), words |-> ws]

\* the two lambdas handed to forEachPosition, by the method that passes them
Callback(fn, ws, position) ==
    IF fn = "add"
    THEN [ret |-> TRUE, words |-> BitArraySet(ws, position)]
    ELSE [ret |-> BitArrayTest(ws, position), words |-> ws]

\* a loop that does not stop at a false callback and returns the last result
RECURSIVE ForEachFromLastOnly(_, _, _, _, _)
ForEachFromLastOnly(i, ws, hc, hashes, fn) ==
    IF i >= hc
    THEN [ret |-> TRUE, words |-> ws, calls |-> i, positions |-> << >>]
    ELSE LET r == Callback(fn, ws, Position(hashes, i, BitArraySize(ws)))
         IN  IF i + 1 >= hc
             THEN [ret |-> r.ret, words |-> r.words, calls |-> i + 1,
                   positions |-> <<Position(hashes, i, BitArraySize(ws))>>]
             ELSE [ForEachFromLastOnly(i + 1, r.words, hc, hashes, fn) EXCEPT
                      !.positions = <<Position(hashes, i, BitArraySize(ws))>> \o @]

\* a loop that returns true at the first callback that returns true
RECURSIVE ForEachFromAny(_, _, _, _, _)
ForEachFromAny(i, ws, hc, hashes, fn) ==
    IF i >= hc
    THEN [ret |-> FALSE, words |-> ws, calls |-> i, positions |-> << >>]
    ELSE LET r == Callback(fn, ws, Position(hashes, i, BitArraySize(ws)))
         IN  IF r.ret
             THEN [ret |-> TRUE, words |-> r.words, calls |-> i + 1,
                   positions |-> <<Position(hashes, i, BitArraySize(ws))>>]
             ELSE [ForEachFromAny(i + 1, r.words, hc, hashes, fn) EXCEPT
                      !.positions = <<Position(hashes, i, BitArraySize(ws))>> \o @]

\* the loop of forEachPosition from round i on; calls counts the callbacks made
\* and positions lists the position handed to each
RECURSIVE ForEachFrom(_, _, _, _, _)
ForEachFrom(i, ws, hc, hashes, fn) ==
    IF i >= hc
    THEN [ret |-> TRUE, words |-> ws, calls |-> i, positions |-> << >>]
    ELSE LET r == Callback(fn, ws, Position(hashes, i, BitArraySize(ws)))
         IN  IF ~r.ret
             THEN [ret |-> FALSE, words |-> r.words, calls |-> i + 1,
                   positions |-> <<Position(hashes, i, BitArraySize(ws))>>]
             ELSE [ForEachFrom(i + 1, r.words, hc, hashes, fn) EXCEPT
                      !.positions = <<Position(hashes, i, BitArraySize(ws))>> \o @]

forEachPosition(ws, hc, element, fn) ==
    ForEachFrom(0, ws, hc, calculateHashes(element), fn)

\* ------------------------------------------------------------ actions
NoOp == [op |-> "none", element |-> << >>, ret |-> TRUE, calls |-> 0,
         repeat |-> FALSE, positions |-> << >>]

Init ==
    /\ status = "unconstructed"
    /\ ctorArgs = [maxElements |-> 0, falsePositiveRate |-> NaN]
    /\ falsePositiveRate = NaN
    /\ maxElements = 0
    /\ words = << >>
    /\ hashCount = 0
    /\ hashOf \in [Elements -> HashPairs]
    /\ added = {}
    /\ lastOp = NoOp
    /\ atConstruction = [bitArraySize |-> 0, hashCount |-> 0]
    /\ threads = [t \in Threads |-> Idle]
    /\ lock = 0
    /\ sync = FALSE

\* BloomFilter(maxElements, falsePositiveRate): the members are initialised in
\* declaration order; an exception leaves no filter
Construct(n, p) ==
    /\ status = "unconstructed"
    /\ ctorArgs' = [maxElements |-> n, falsePositiveRate |-> p]
    /\ \E r \in calculateBitSize(n, p) :
          IF r.throws # "none"
          THEN /\ status' = r.throws
               /\ UNCHANGED <<falsePositiveRate, maxElements, words, hashCount,
                              atConstruction>>
          ELSE IF WordCount(r.ret) > MaxWords
          THEN /\ status' = "bad_alloc"
               /\ UNCHANGED <<falsePositiveRate, maxElements, words, hashCount,
                              atConstruction>>
          ELSE /\ status' = "constructed"
               /\ falsePositiveRate' = p
               /\ maxElements' = n
               /\ words' = BitArrayNew(r.ret)
               /\ hashCount' = calculateHashCount(n, BitArraySize(BitArrayNew(r.ret)))
               /\ atConstruction' =
                      [bitArraySize |-> BitArraySize(BitArrayNew(r.ret)),
                       hashCount |-> calculateHashCount(n, BitArraySize(BitArrayNew(r.ret)))]
    /\ UNCHANGED <<hashOf, added, lastOp, threads, lock, sync>>

Add(element) ==
    /\ status = "constructed"
    /\ LET r == forEachPosition(words, hashCount, element, "add")
       IN  /\ words' = r.words
           /\ lastOp' = [op |-> "add", element |-> element, ret |-> TRUE,
                         calls |-> r.calls, repeat |-> element \in added,
                         positions |-> r.positions]
    /\ added' = added \cup {element}
    /\ UNCHANGED <<status, ctorArgs, falsePositiveRate, maxElements, hashCount,
                   hashOf, atConstruction, threads, lock, sync>>

Contains(element) ==
    /\ status = "constructed"
    /\ LET r == forEachPosition(words, hashCount, element, "contains")
       IN  /\ words' = r.words
           /\ lastOp' = [op |-> "contains", element |-> element, ret |-> r.ret,
                         calls |-> r.calls, repeat |-> FALSE,
                         positions |-> r.positions]
    /\ UNCHANGED <<status, ctorArgs, falsePositiveRate, maxElements, hashCount,
                   hashOf, added, atConstruction, threads, lock, sync>>

Next ==
    \/ \E n \in Capacities, p \in Rates : Construct(n, p)
    \/ \E element \in Elements : Add(element)
    \/ \E element \in Elements : Contains(element)

Spec == Init /\ [][Next]_vars

\* ------------------------------------------------------------ accessors
getBitArraySize == BitArraySize(words)
getHashCount == hashCount

\* the bits of the array that are 1
SetBits == UNION {{w * BIT_ALIGNMENT + b : b \in words[w]} : w \in DOMAIN words}

Constructed == status = "constructed"

\* what contains(element) returns in the current state
ContainsNow(element) == forEachPosition(words, hashCount, element, "contains").ret

\* the constructor's arguments satisfy its documented precondition
ValidArgs ==
    /\ ctorArgs.maxElements > 0
    /\ ~ctorArgs.falsePositiveRate.nan
    /\ ctorArgs.falsePositiveRate.milli > 0
    /\ ctorArgs.falsePositiveRate.milli < 1000

\* -------------------------------------------------------------- claims

\* C1: no false negatives. Once add(x) has been called, contains(x) returns
\* true, in that state and after any later add of any element.
NoFalseNegatives ==
    Constructed =>
        /\ \A x \in added : ContainsNow(x)
        /\ (lastOp.op = "contains" /\ lastOp.element \in added) => lastOp.ret

\* C1 witness: contains returned true for an added element after another
\* element was added to a filter with several rounds.
NoFalseNegativesWitness ==
    /\ Constructed
    /\ ValidArgs
    /\ hashCount > 1
    /\ Cardinality(added) >= 2
    /\ lastOp.op = "contains"
    /\ lastOp.element \in added
    /\ lastOp.ret

\* C2: on a freshly constructed filter with no add, every bit is 0 and
\* contains(x) is false for every x, the empty sequence included.
EmptyFilterBaseline ==
    (Constructed /\ added = {}) =>
        /\ SetBits = {}
        /\ \A x \in Elements : ~ContainsNow(x)
        /\ lastOp.op = "contains" => ~lastOp.ret

\* C2, for the filters whose bit array is not empty.
EmptyFilterBaselineWhenSized ==
    (Constructed /\ added = {} /\ getBitArraySize > 0) =>
        /\ SetBits = {}
        /\ \A x \in Elements : ~ContainsNow(x)
        /\ lastOp.op = "contains" => ~lastOp.ret

\* C3: construction with capacity 0 or a rate not strictly between 0 and 1
\* fails with invalid_argument; construction with valid arguments never
\* fails with that error.
ConstructionValidation ==
    status # "unconstructed" =>
        /\ ~ValidArgs => status = "invalid_argument"
        /\ ValidArgs => status # "invalid_argument"

\* C3, for rates that are numbers.
ConstructionValidationOfNumbers ==
    (status # "unconstructed" /\ ~ctorArgs.falsePositiveRate.nan) =>
        /\ ~ValidArgs => status = "invalid_argument"
        /\ ValidArgs => status # "invalid_argument"

\* the constructor's bit count fits std::size_t: the cast in calculateBitSize
\* is defined
Representable ==
    /\ ValidArgs
    /\ CeilOfM(ctorArgs.maxElements, ctorArgs.falsePositiveRate) < SizeMod

\* C4: no bit ever changes from 1 to 0, a filter with a bit set never returns
\* to all zeros, and the filter has a bit set after an add.
BitsMonotonicAndPopulated ==
    [][Constructed =>
          /\ SetBits \subseteq SetBits'
          /\ SetBits # {} => SetBits' # {}
          /\ (\E x \in Elements : Add(x)) => SetBits' # {}]_vars

\* C4, without the part about the first add: bits only go from 0 to 1.
BitsMonotonic ==
    [][Constructed =>
          /\ SetBits \subseteq SetBits'
          /\ SetBits # {} => SetBits' # {}]_vars

\* the bit array after add(element) on a filter whose bit array is ws
AddTo(ws, element) == forEachPosition(ws, hashCount, element, "add").words

\* C5: add is idempotent. From every reachable state, add(x) followed by
\* add(x) leaves the bit array that a single add(x) leaves; an add of an
\* element already added changes no bit.
AddIdempotent ==
    Constructed =>
        /\ \A x \in Elements : AddTo(AddTo(words, x), x) = AddTo(words, x)
        /\ \A x \in added : AddTo(words, x) = words

\* C5 witness: add was called again with an element added before, on a
\* filter that sets several bits per element.
AddIdempotentWitness ==
    /\ Constructed
    /\ lastOp.op = "add"
    /\ lastOp.repeat
    /\ lastOp.calls > 1
    /\ Cardinality(SetBits) > 1

\* C6: for every valid construction, and in every state reached afterwards,
\* the bit count is positive and a multiple of 64, the hash count is at
\* least 1, and both are the values the constructor left.
SizingInvariants ==
    (Constructed /\ ValidArgs) =>
        /\ getBitArraySize > 0
        /\ getBitArraySize % BIT_ALIGNMENT = 0
        /\ getHashCount >= 1
        /\ getBitArraySize = atConstruction.bitArraySize
        /\ getHashCount = atConstruction.hashCount

\* C6, for the constructions whose bit count fits std::size_t.
SizingInvariantsWhenRepresentable ==
    (Constructed /\ Representable) =>
        /\ getBitArraySize > 0
        /\ getBitArraySize % BIT_ALIGNMENT = 0
        /\ getHashCount >= 1
        /\ getBitArraySize = atConstruction.bitArraySize
        /\ getHashCount = atConstruction.hashCount

\* C7: contains is read-only. A call of contains changes no bit and none of
\* capacity, falsePositiveRate, bit count and hash count, whatever it returns.
ContainsReadOnly ==
    [][(\E x \in Elements : Contains(x)) =>
          /\ words' = words
          /\ maxElements' = maxElements
          /\ falsePositiveRate' = falsePositiveRate
          /\ getBitArraySize' = getBitArraySize
          /\ hashCount' = hashCount]_vars

\* C7 witness: contains short-circuited to false after a test that passed,
\* on a filter with bits set.
ContainsReadOnlyWitness ==
    /\ Constructed
    /\ SetBits # {}
    /\ lastOp.op = "contains"
    /\ ~lastOp.ret
    /\ lastOp.calls > 1
    /\ lastOp.calls < hashCount

\* C8: the bit count is ceil(-(n ln p) / (ln 2)^2) rounded up to the next
\* multiple of 64, the hash count is ceil((bitCount / n) ln 2) of the rounded
\* bit count, and new(1000, 0.01) yields raw 9586, bit count 9600, 7 rounds.
FormulaExactness ==
    (Constructed /\ ValidArgs) =>
        LET n == ctorArgs.maxElements
            raw == CeilOfM(n, ctorArgs.falsePositiveRate)
            c == Ceil(getBitArraySize * Ln2, Scale)
        IN  /\ getBitArraySize % BIT_ALIGNMENT = 0
            /\ getBitArraySize >= raw
            /\ getBitArraySize - BIT_ALIGNMENT < raw
            /\ (getHashCount - 1) * n < c
            /\ c <= getHashCount * n
            /\ (n = 1000 /\ ctorArgs.falsePositiveRate = Milli(10)) =>
                  (raw = 9586 /\ getBitArraySize = 9600 /\ getHashCount = 7)

\* C8, for the constructions whose bit count fits std::size_t.
FormulaExactnessWhenRepresentable ==
    (Constructed /\ Representable) =>
        LET n == ctorArgs.maxElements
            raw == CeilOfM(n, ctorArgs.falsePositiveRate)
            c == Ceil(getBitArraySize * Ln2, Scale)
        IN  /\ getBitArraySize % BIT_ALIGNMENT = 0
            /\ getBitArraySize >= raw
            /\ getBitArraySize - BIT_ALIGNMENT < raw
            /\ (getHashCount - 1) * n < c
            /\ c <= getHashCount * n
            /\ (n = 1000 /\ ctorArgs.falsePositiveRate = Milli(10)) =>
                  (raw = 9586 /\ getBitArraySize = 9600 /\ getHashCount = 7)

\* the position of round j = 1 .. hashCount of element x
PositionOf(x, j) == Position(calculateHashes(x), j - 1, getBitArraySize)

RoundIsSet(x, j) == PositionOf(x, j) \in SetBits

AllPositionsSet(x) == \A j \in 1 .. hashCount : RoundIsSet(x, j)

\* the first round, in round order, whose position is not set
FirstUnsetRound(x) ==
    CHOOSE j \in 1 .. hashCount :
        ~RoundIsSet(x, j) /\ \A i \in 1 .. j - 1 : RoundIsSet(x, i)

\* a short-circuit test of the rounds of x in the order given
RECURSIVE TestInOrder(_, _)
TestInOrder(x, order) ==
    IF order = << >>
    THEN TRUE
    ELSE IF ~RoundIsSet(x, Head(order))
    THEN FALSE
    ELSE TestInOrder(x, Tail(order))

\* orders of the rounds 1 .. hashCount: every rotation, and the reverse
RoundOrders ==
    {[j \in 1 .. hashCount |-> ((j - 1 + s) % hashCount) + 1] : s \in 0 .. hashCount - 1}
        \cup {[j \in 1 .. hashCount |-> hashCount + 1 - j]}

\* what contains(x) returns, how many positions it tests, and any order agree
ConjunctionOf(x, ret, calls) ==
    /\ ret = AllPositionsSet(x)
    /\ ret => calls = hashCount
    /\ ~ret => calls = FirstUnsetRound(x)
    /\ \A order \in RoundOrders : TestInOrder(x, order) = ret

\* C10: contains(x) is true exactly when all hashCount positions of x are
\* set, it stops at the first unset position in round order, and visiting
\* the rounds in another order gives the same result.
ContainsIsConjunction ==
    Constructed =>
        /\ \A x \in Elements :
              LET r == forEachPosition(words, hashCount, x, "contains")
              IN  ConjunctionOf(x, r.ret, r.calls)
        /\ lastOp.op = "contains" =>
              ConjunctionOf(lastOp.element, lastOp.ret, lastOp.calls)

\* C10 witness: contains found some positions of an element set and returned
\* false at a later one, where the reverse order stops at its first test; for
\* another element every position is set.
ContainsIsConjunctionWitness ==
    /\ Constructed
    /\ hashCount > 2
    /\ lastOp.op = "contains"
    /\ ~lastOp.ret
    /\ lastOp.calls > 1
    /\ ~RoundIsSet(lastOp.element, hashCount)
    /\ \E x \in Elements : AllPositionsSet(x)

\* ------------------------------------------------------------ threads
\* Two threads call add and contains on one filter. BitArray::set is a load
\* of the word, an or, and a store of the word: two steps another thread can
\* come between. BitArray::test is one load. With sync the callers hold one
\* exclusive lock from the call to its return.

InAdd(t) == threads[t].pc \in {"load", "store"}
InContains(t) == threads[t].pc = "test"

\* the position of the round thread t is at
ThreadPosition(t) ==
    Position(calculateHashes(threads[t].element), threads[t].i, getBitArraySize)

\* a filter as BloomFilter(100, 0.5) leaves it, empty or after one add
InitThreads ==
    /\ status = "constructed"
    /\ ctorArgs = [maxElements |-> 100, falsePositiveRate |-> Milli(500)]
    /\ falsePositiveRate = ctorArgs.falsePositiveRate
    /\ maxElements = ctorArgs.maxElements
    /\ hashOf \in [Elements -> HashPairs]
    /\ \E r \in calculateBitSize(ctorArgs.maxElements, ctorArgs.falsePositiveRate) :
          /\ hashCount = calculateHashCount(ctorArgs.maxElements,
                                            BitArraySize(BitArrayNew(r.ret)))
          /\ atConstruction = [bitArraySize |-> BitArraySize(BitArrayNew(r.ret)),
                               hashCount |-> hashCount]
          /\ \E prior \in {{}} \cup {{e} : e \in Elements} :
                /\ added = prior
                /\ words = IF prior = {}
                           THEN BitArrayNew(r.ret)
                           ELSE forEachPosition(BitArrayNew(r.ret), hashCount,
                                                CHOOSE e \in prior : TRUE, "add").words
    /\ lastOp = NoOp
    /\ threads = [t \in Threads |-> Idle]
    /\ lock = 0
    /\ sync \in BOOLEAN

\* thread t calls add(x) or contains(x): forEachPosition computes the hashes
\* and enters its loop
Call(t, op, x) ==
    /\ threads[t].pc = "idle"
    /\ sync => lock = 0
    /\ lock' = IF sync /\ hashCount > 0 THEN t ELSE lock
    /\ threads' =
          [u \in Threads |->
              IF u = t
              THEN [pc |-> IF hashCount = 0 THEN "done"
                           ELSE IF op = "add" THEN "load" ELSE "test",
                    op |-> op, element |-> x, i |-> 0, tmp |-> {}, ret |-> TRUE,
                    alone |-> op = "add" \/ \A v \in Threads \ {t} : ~InAdd(v),
                    expect |-> IF op = "contains" THEN ContainsNow(x) ELSE TRUE]
              ELSE IF op = "add" /\ InContains(u)
              THEN [threads[u] EXCEPT !.alone = FALSE]
              ELSE threads[u]]
    /\ added' = IF op = "add" /\ hashCount = 0 THEN added \cup {x} ELSE added
    /\ UNCHANGED <<status, ctorArgs, falsePositiveRate, maxElements, words,
                   hashCount, hashOf, lastOp, atConstruction, sync>>

\* set, first half: read words[i >> BIT_ALIGNMENT_SHIFT]
Load(t) ==
    /\ threads[t].pc = "load"
    /\ threads' = [threads EXCEPT ![t].tmp = words[WordIndex(ThreadPosition(t))],
                                  ![t].pc = "store"]
    /\ UNCHANGED <<status, ctorArgs, falsePositiveRate, maxElements, words,
                   hashCount, hashOf, added, lastOp, atConstruction, lock, sync>>

\* set, second half: write the word read, with the bit or-ed in; then the
\* next round, or the return of add
Store(t) ==
    /\ threads[t].pc = "store"
    /\ words' = [words EXCEPT ![WordIndex(ThreadPosition(t))] =
                                  OrInto(threads[t].tmp, ThreadPosition(t))]
    /\ IF threads[t].i + 1 >= hashCount
       THEN /\ threads' = [threads EXCEPT ![t].pc = "done", ![t].tmp = {},
                                          ![t].i = @ + 1]
            /\ added' = added \cup {threads[t].element}
            /\ lock' = IF sync THEN 0 ELSE lock
       ELSE /\ threads' = [threads EXCEPT ![t].pc = "load", ![t].tmp = {},
                                          ![t].i = @ + 1]
            /\ UNCHANGED <<added, lock>>
    /\ UNCHANGED <<status, ctorArgs, falsePositiveRate, maxElements, hashCount,
                   hashOf, lastOp, atConstruction, sync>>

\* test of one round of contains; then the next round, or the return
Test(t) ==
    /\ threads[t].pc = "test"
    /\ IF ~BitArrayTest(words, ThreadPosition(t))
       THEN /\ threads' = [threads EXCEPT ![t].pc = "done", ![t].ret = FALSE,
                                          ![t].i = @ + 1]
            /\ lock' = IF sync THEN 0 ELSE lock
       ELSE IF threads[t].i + 1 >= hashCount
       THEN /\ threads' = [threads EXCEPT ![t].pc = "done", ![t].ret = TRUE,
                                          ![t].i = @ + 1]
            /\ lock' = IF sync THEN 0 ELSE lock
       ELSE /\ threads' = [threads EXCEPT ![t].i = @ + 1]
            /\ UNCHANGED lock
    /\ UNCHANGED <<status, ctorArgs, falsePositiveRate, maxElements, words,
                   hashCount, hashOf, added, lastOp, atConstruction, sync>>

NextThreads ==
    \E t \in Threads :
        \/ \E op \in {"add", "contains"}, x \in Elements : Call(t, op, x)
        \/ Load(t)
        \/ Store(t)
        \/ Test(t)

SpecThreads == InitThreads /\ [][NextThreads]_vars

\* C9: when every add and contains runs under one exclusive lock, every
\* element whose add has returned has all its positions set and every
\* contains returns what it returns run alone; and with or without the lock, a
\* contains during which no add ran returns what it returns run alone.
ConcurrencyContract ==
    /\ sync => \A x \in added : AllPositionsSet(x)
    /\ \A t \in Threads :
          (threads[t].pc = "done" /\ threads[t].op = "contains"
              /\ (sync \/ threads[t].alone))
          => threads[t].ret = threads[t].expect

\* C9 witness: without the lock, two adds whose positions share a word have
\* both returned and a bit of an added element is lost: contains of it is false.
LostBitWitness ==
    /\ ~sync
    /\ \A t \in Threads : threads[t].pc = "done" /\ threads[t].op = "add"
    /\ \E x \in added : ~ContainsNow(x)

\* without the lock, two contains calls overlapped and each returned true
ConcurrentContainsReached ==
    /\ ~sync
    /\ \A t \in Threads :
          /\ threads[t].pc = "done"
          /\ threads[t].op = "contains"
          /\ threads[t].alone
          /\ threads[t].ret

\* ---------------------------------------------------- position claims
\* h1 + j * h2 formed by j additions of h2 in std::size_t arithmetic
RECURSIVE WrappedSum(_, _, _)
WrappedSum(h1, h2, j) ==
    IF j = 0 THEN h1 ELSE (WrappedSum(h1, h2, j - 1) + h2) % SizeMod

\* the positions add(x) hands to set in the current state
PositionsOf(x) == forEachPosition(words, hashCount, x, "add").positions

\* the last call was an add or a contains
Called == Constructed /\ lastOp.op \in {"add", "contains"}

\* C11 as stated: the position of round j = 1 .. hashRounds is
\* (h1 + j * h2) mod bitCount of the integer h1 + j * h2, also when that
\* integer does not fit the hash width.
PositionIsUnwrappedSum ==
    Called =>
        \A j \in 1 .. Len(lastOp.positions) :
            lastOp.positions[j] =
                (hashOf[lastOp.element][1] + j * hashOf[lastOp.element][2])
                    % getBitArraySize

\* C11 amended: the position of round j = 1 .. hashRounds is
\* ((h1 + j * h2) mod 2^width) mod bitCount; add visits all hashRounds
\* rounds, contains a prefix of them, and every call with the same bytes
\* derives the same positions.
PositionDerivation ==
    Constructed =>
        /\ \A x \in Elements :
              /\ Len(PositionsOf(x)) = hashCount
              /\ \A j \in 1 .. hashCount :
                    PositionsOf(x)[j] =
                        WrappedSum(hashOf[x][1], hashOf[x][2], j) % getBitArraySize
        /\ Called =>
              /\ Len(lastOp.positions) = lastOp.calls
              /\ lastOp.calls <= hashCount
              /\ \A j \in 1 .. lastOp.calls :
                    lastOp.positions[j] = PositionsOf(lastOp.element)[j]

\* C11 witness: a call derived a position from a sum that does not fit the
\* hash width, on a bit array whose size is not a power of two, and the
\* position differs from the one the unreduced sum gives.
PositionDerivationWitness ==
    /\ Called
    /\ \E j \in 1 .. Len(lastOp.positions) :
          /\ hashOf[lastOp.element][1] + j * hashOf[lastOp.element][2] >= SizeMod
          /\ SizeMod % getBitArraySize # 0
          /\ lastOp.positions[j] #
                (hashOf[lastOp.element][1] + j * hashOf[lastOp.element][2])
                    % getBitArraySize

\* C12: no out-of-range bit access. The allocated words are numbered from 0
\* and bitCount is 64 times their number; for every element and every round
\* 1 .. hashRounds the position derived for set and test, and every position
\* the last call handed to them, is at least 0, less than bitCount, and
\* falls in an allocated word.
PositionsInRange ==
    Constructed =>
        /\ DOMAIN words = 0 .. Cardinality(DOMAIN words) - 1
        /\ getBitArraySize = BIT_ALIGNMENT * Cardinality(DOMAIN words)
        /\ \A x \in Elements : \A i \in 0 .. hashCount - 1 :
              LET position == Position(calculateHashes(x), i, getBitArraySize)
              IN  /\ 0 <= position
                  /\ position < getBitArraySize
                  /\ WordIndex(position) \in DOMAIN words
        /\ \A j \in 1 .. Len(lastOp.positions) :
              /\ 0 <= lastOp.positions[j]
              /\ lastOp.positions[j] < getBitArraySize
              /\ WordIndex(lastOp.positions[j]) \in DOMAIN words

\* C12 witness: on a filter built from valid arguments, a call handed set or
\* test a position of the last allocated word that lies in the padding
\* between the computed bit count and the word-rounded size, derived from a
\* sum that exceeds the hash width.
PositionsInRangeWitness ==
    /\ Called
    /\ ValidArgs
    /\ \E j \in 1 .. Len(lastOp.positions) :
          /\ lastOp.positions[j] >=
                CeilOfM(ctorArgs.maxElements, ctorArgs.falsePositiveRate)
          /\ WordIndex(lastOp.positions[j]) = Cardinality(DOMAIN words) - 1
          /\ hashOf[lastOp.element][1] + j * hashOf[lastOp.element][2] >= SizeMod

\* ------------------------------------------------------- effect of add
\* the bits of a word vector that are 1
BitsOf(ws) == UNION {{w * BIT_ALIGNMENT + b : b \in ws[w]} : w \in DOMAIN ws}

\* the hashCount positions derived for an element
PositionSet(x) == {PositionOf(x, j) : j \in 1 .. hashCount}

\* C13: exact effect of add. The bits equal to 1 are exactly the union of
\* the hashRounds positions of the elements added so far; an add visits all
\* hashRounds rounds, sets each of the element's positions and changes no
\* other bit; two adds in either order, and an add repeated, leave the same
\* bit array.
AddExactEffect ==
    Constructed =>
        /\ SetBits = UNION {PositionSet(x) : x \in added}
        /\ lastOp.op = "add" =>
              /\ lastOp.calls = hashCount
              /\ \A j \in 1 .. hashCount : lastOp.positions[j] \in SetBits
        /\ \A x \in Elements :
              /\ DOMAIN AddTo(words, x) = DOMAIN words
              /\ BitsOf(AddTo(words, x)) = SetBits \cup PositionSet(x)
              /\ \A y \in Elements :
                    /\ AddTo(AddTo(words, x), y) = AddTo(AddTo(words, y), x)
                    /\ AddTo(AddTo(AddTo(words, x), y), x) = AddTo(AddTo(words, x), y)

\* C13 witness: after adds of two elements with different positions, the
\* last one over several rounds, a word holds a bit of each of them and
\* still has a bit that is 0.
AddExactEffectWitness ==
    /\ Constructed
    /\ lastOp.op = "add"
    /\ hashCount >= 2
    /\ \E x \in added : \E y \in added :
          /\ lastOp.element = y
          /\ PositionSet(x) \ PositionSet(y) # {}
          /\ PositionSet(y) \ PositionSet(x) # {}
          /\ \E w \in DOMAIN words :
                /\ \E b \in words[w] :
                      w * BIT_ALIGNMENT + b \in PositionSet(x) \ PositionSet(y)
                /\ \E b \in words[w] :
                      w * BIT_ALIGNMENT + b \in PositionSet(y) \ PositionSet(x)
                /\ Cardinality(words[w]) < BIT_ALIGNMENT

====
